---- MODULE Spec2Model ----
(***************************************************************************)
(* Model of clipboard_manager.py: the ClipboardManager history store.     *)
(*                                                                         *)
(* Text is a sequence of Unicode code points, a file's text content a     *)
(* sequence of UTF-8 bytes, a datetime a number of clock ticks, and an     *)
(* ISO-8601 timestamp string its date and time-of-day components.         *)
(* An Optional[int] argument is <<>> (None) or <<n>>.  A file is <<>>      *)
(* (absent) or <<content>>.                                                *)
(***************************************************************************)
EXTENDS Integers, Sequences, FiniteSets, TLC

\* ------------------------------------------------------------------ bounds
MaxTime == 3          \* wall-clock readings are 0..MaxTime
TicksPerDay == 2      \* clock ticks in one timedelta(days=1)
MaxCap == 2           \* user-written config files carry max_entries in 1..MaxCap
MaxLog == 3           \* add_entry is not called when it would make the log longer
BytesPerMb == 1       \* bytes in one unit of max_size_mb (stands for 1024 * 1024)
MaxArg == 1           \* integer command arguments are drawn from 0..MaxArg
MaxAppends == 4       \* SpecAppend: add_entry accepts at most this many entries

\* --------------------------------------------------------- program constants
DefaultMaxSizeMb == 10
DefaultMaxEntries == 1000
DefaultRetentionDays == 30

\* ------------------------------------------------------------------- inputs
\* "a" (1 byte); quote, e-acute, euro sign, grinning-face emoji (1 + 2 + 3 + 4
\* bytes); six emoji (24 bytes)
Contents ==
  { <<97>>, <<34, 233, 8364, 128512>>,
    <<128512, 128512, 128512, 128512, 128512, 128512>> }

OptInts == { <<>> } \cup { <<n>> : n \in 0..MaxArg }

Responses == { "YES", "no" }

\* get_entry's index argument
Indexes == (0 - 1)..(MaxLog + 1)

\* answers to "Copy to clipboard? (y/n)"
CopyResponses == { "Y", "n" }

\* search queries: "A"; E-acute, euro sign; the empty string
Queries == { <<65>>, <<201, 8364>>, << >> }

\* what the text of clipboard.json can be: the records save_data wrote, the
\* JSON document ["a"] (a list of plain strings), or text json cannot parse
\* (a write cut short); and config.json: a dict, the document [], or
\* unparseable text
HistoryFileShapes == { "records", "strings", "broken" }
ConfigFileShapes == { "dict", "list", "broken" }

\* what pyperclip.paste() returns: a content or the empty string
Reads == Contents \cup { << >> }

\* what a monitor tick can raise: a failing clipboard read, Ctrl+C
Raised == { "PyperclipException", "KeyboardInterrupt" }

\* what a failed open(history_file, 'w') / json.dump leaves of clipboard.json:
\* the file as it was, or the file cut short
FailedWrites == { "untouched", "broken" }

\* ------------------------------------------------------------- conversions
Min(a, b) == IF a < b THEN a ELSE b
Max(a, b) == IF a > b THEN a ELSE b

\* str.encode('utf-8') of one code point
Utf8EncodeCp(cp) ==
  IF cp < 128 THEN << cp >>
  ELSE IF cp < 2048 THEN << 192 + (cp \div 64), 128 + (cp % 64) >>
  ELSE IF cp < 65536
    THEN << 224 + (cp \div 4096), 128 + ((cp \div 64) % 64), 128 + (cp % 64) >>
    ELSE << 240 + (cp \div 262144), 128 + ((cp \div 4096) % 64),
            128 + ((cp \div 64) % 64), 128 + (cp % 64) >>

RECURSIVE Utf8Encode(_)
Utf8Encode(s) ==
  IF s = << >> THEN << >> ELSE Utf8EncodeCp(Head(s)) \o Utf8Encode(Tail(s))

\* bytes.decode('utf-8'): the lead byte gives the length of each character
RECURSIVE Utf8Decode(_)
Utf8Decode(b) ==
  IF b = << >> THEN << >>
  ELSE IF b[1] < 128 THEN << b[1] >> \o Utf8Decode(SubSeq(b, 2, Len(b)))
  ELSE IF b[1] < 224
    THEN << (b[1] - 192) * 64 + (b[2] - 128) >> \o Utf8Decode(SubSeq(b, 3, Len(b)))
  ELSE IF b[1] < 240
    THEN << (b[1] - 224) * 4096 + (b[2] - 128) * 64 + (b[3] - 128) >>
         \o Utf8Decode(SubSeq(b, 4, Len(b)))
    ELSE << (b[1] - 240) * 262144 + (b[2] - 128) * 4096 + (b[3] - 128) * 64
            + (b[4] - 128) >>
         \o Utf8Decode(SubSeq(b, 5, Len(b)))

\* len(content.encode('utf-8'))
Utf8Len(s) == Len(Utf8Encode(s))

\* json string escaping with ensure_ascii=False: quote, backslash, newline
RECURSIVE JsonEscape(_)
JsonEscape(s) ==
  IF s = << >> THEN << >>
  ELSE (IF Head(s) = 34 THEN << 92, 34 >>
        ELSE IF Head(s) = 92 THEN << 92, 92 >>
        ELSE IF Head(s) = 10 THEN << 92, 110 >>
        ELSE << Head(s) >>) \o JsonEscape(Tail(s))

RECURSIVE JsonUnescape(_)
JsonUnescape(s) ==
  IF s = << >> THEN << >>
  ELSE IF s[1] = 92
    THEN << (IF s[2] = 110 THEN 10 ELSE s[2]) >> \o JsonUnescape(SubSeq(s, 3, Len(s)))
    ELSE << s[1] >> \o JsonUnescape(Tail(s))

\* datetime.isoformat(): the date and the time of day
IsoFormat(t) == [date |-> t \div TicksPerDay, time |-> t % TicksPerDay]

\* datetime.fromisoformat()
FromIsoFormat(s) == s.date * TicksPerDay + s.time

\* timedelta(days=d)
Days(d) == d * TicksPerDay

\* json.dump(self.history, f, ensure_ascii=False) into a utf-8 text file
JsonDump(h) ==
  [i \in 1..Len(h) |->
     [content |-> Utf8Encode(JsonEscape(h[i].content)),
      timestamp |-> h[i].timestamp,
      size |-> h[i].size]]

\* json.load(f) from a file opened without encoding='utf-8' (one character a byte)
JsonLoadLatin1(f) ==
  [i \in 1..Len(f) |->
     [content |-> JsonUnescape(f[i].content),
      timestamp |-> f[i].timestamp,
      size |-> f[i].size]]

\* json.load(f) from a utf-8 text file
JsonLoad(f) ==
  [i \in 1..Len(f) |->
     [content |-> JsonUnescape(Utf8Decode(f[i].content)),
      timestamp |-> f[i].timestamp,
      size |-> f[i].size]]

\* seq[i:] and seq[:j] with Python's negative indices
PySliceFrom(s, i) ==
  LET start == IF i < 0 THEN Max(Len(s) + i, 0) ELSE Min(i, Len(s))
  IN  SubSeq(s, start + 1, Len(s))

PySliceTo(s, j) ==
  LET stop == IF j < 0 THEN Max(Len(s) + j, 0) ELSE Min(j, Len(s))
  IN  SubSeq(s, 1, stop)

\* list(reversed(seq))
Reverse(s) == [i \in 1..Len(s) |-> s[Len(s) + 1 - i]]

\* [e for e in seq if datetime.fromisoformat(e['timestamp']) >= cutoff]
RECURSIVE NotOlderThan(_, _)
NotOlderThan(s, cutoff) ==
  IF s = << >> THEN << >>
  ELSE (IF FromIsoFormat(Head(s).timestamp) >= cutoff THEN << Head(s) >> ELSE << >>)
       \o NotOlderThan(Tail(s), cutoff)

\* Python truthiness of an Optional[int]: None and 0 are false
Truthy(opt) == opt # << >> /\ opt[1] # 0

\* dict.get(key, default)
DictGet(d, key, default) == IF key \in DOMAIN d THEN d[key] ELSE default

\* str.lower() of a confirmation answer
Lower(r) == IF r = "YES" THEN "yes" ELSE IF r = "Y" THEN "y" ELSE r

\* -------------------------------------------------------------------- state
VARIABLES
  history,         \* self.history: entries, oldest first
  config,          \* self.config
  max_size_bytes,  \* self.max_size_bytes
  history_file,    \* clipboard.json: << >> or << records >>
  config_file,     \* config.json: << >> or << config >>
  clock,           \* the reading datetime.now() gives
  op,              \* the call that returned last, with its arguments
  ret,             \* add_entry's return value
  out,             \* the entries list_entries printed
  removed,         \* entries the last call dropped from the log
  wrote,           \* the last call wrote clipboard.json
  accepted,        \* SpecAppend: the entries add_entry has accepted, in order
  clipboard,       \* the text on the system clipboard (pyperclip)
  reported,        \* the message the last call printed instead of a result
  stats,           \* the figures stats computed: << >> or << figures >>
  last_content,    \* monitor's last_content: << >> (None) or << text >>
  running,         \* monitor's loop is running
  offered,         \* the last monitor tick called add_entry
  store,           \* "open": the constructor returned; "none": it raised
  shape,           \* what each file's text and each loaded value is (see
                   \* FileShapes); history_file, config_file, history and
                   \* config hold the value only under the expected shape
  history2,        \* self.history of a second process on the same directory
  last_writer      \* the process that wrote clipboard.json last (0: none)

vars == << history, config, max_size_bytes, history_file, config_file,
           clock, op, ret, out, removed, wrote, accepted,
           clipboard, reported, stats, last_content, running, offered,
           store, shape, history2, last_writer >>

\* what the calls of the store alone leave untouched
queryVars == << clipboard, reported, stats >>
monitorVars == << last_content, running, offered >>
openVars == << store, shape >>
twoVars == << history2, last_writer >>
aux == << accepted, queryVars, monitorVars, openVars, twoVars >>

DefaultConfig ==
  [max_entries |-> DefaultMaxEntries, retention_days |-> DefaultRetentionDays]

UserConfigs ==
  { [max_entries |-> n, retention_days |-> DefaultRetentionDays] : n \in 1..MaxCap }

\* The state after ClipboardManager() on a directory that holds no history yet
\* and either no config or a config the user wrote.
Init ==
  /\ history = << >>
  /\ history_file = << >>
  /\ \E f \in { << >> } \cup { << c >> : c \in UserConfigs } :
       /\ config = (IF f = << >> THEN DefaultConfig ELSE f[1])
       /\ config_file = << config >>
  /\ max_size_bytes = DefaultMaxSizeMb * BytesPerMb
  /\ clock = 0
  /\ op = [name |-> "init"]
  /\ ret = FALSE
  /\ out = << >>
  /\ removed = 0
  /\ wrote = FALSE
  /\ accepted = << >>
  /\ clipboard = << >>
  /\ reported = ""
  /\ stats = << >>
  /\ last_content = << >>
  /\ running = FALSE
  /\ offered = FALSE
  /\ store = "open"
  /\ shape = [history_file |-> "records", config_file |-> "dict",
              history |-> "list", config |-> "dict"]
  /\ history2 = << >>
  /\ last_writer = 0

\* save_data
SaveData(h) == << JsonDump(h) >>

\* the entry add_entry builds
NewEntry(content, t) ==
  [content |-> content, timestamp |-> IsoFormat(t), size |-> Utf8Len(content)]

\* the size test counting characters instead of bytes
TooLargeChars(content, limit) == Len(content) > limit

\* add_entry's size test
TooLarge(content, limit) == Utf8Len(content) > limit

\* the duplicate test against every entry instead of the last
SameAsAny(h, content) == \E i \in 1..Len(h) : h[i].content = content

\* add_entry's duplicate test
SameAsLast(h, content) == h # << >> /\ h[Len(h)].content = content

\* the capacity limit keeping the oldest entries
LimitHistoryOldest(h, max_entries) ==
  IF Len(h) > max_entries THEN PySliceTo(h, max_entries) ELSE h

\* the capacity limit applied one entry late
LimitHistoryLate(h, max_entries) ==
  IF Len(h) > max_entries + 1 THEN PySliceFrom(h, 0 - max_entries) ELSE h

\* add_entry's capacity limit
LimitHistory(h, max_entries) ==
  IF Len(h) > max_entries THEN PySliceFrom(h, 0 - max_entries) ELSE h

\* add_entry saving on its early returns too
AddEntryOutcomeSaveAlways(h, content, limit, max_entries, t) ==
  IF TooLarge(content, limit) \/ SameAsLast(h, content)
  THEN [ret |-> FALSE, history |-> h, saved |-> SaveData(h)]
  ELSE LET limited == LimitHistory(Append(h, NewEntry(content, t)), max_entries)
       IN  [ret |-> TRUE, history |-> limited, saved |-> SaveData(limited)]

\* add_entry saving before it limits the log
AddEntryOutcomeSaveFirst(h, content, limit, max_entries, t) ==
  IF TooLarge(content, limit) \/ SameAsLast(h, content)
  THEN [ret |-> FALSE, history |-> h, saved |-> << >>]
  ELSE LET appended == Append(h, NewEntry(content, t))
       IN  [ret |-> TRUE, history |-> LimitHistory(appended, max_entries),
            saved |-> SaveData(appended)]

\* add_entry: its return value, the log it leaves and what it writes to
\* clipboard.json (<< >> when it writes nothing)
AddEntryOutcome(h, content, limit, max_entries, t) ==
  IF TooLarge(content, limit) \/ SameAsLast(h, content)
  THEN [ret |-> FALSE, history |-> h, saved |-> << >>]
  ELSE LET limited == LimitHistory(Append(h, NewEntry(content, t)), max_entries)
       IN  [ret |-> TRUE, history |-> limited, saved |-> SaveData(limited)]

AddEntry(content) ==
  \E r \in { AddEntryOutcome(history, content, max_size_bytes,
                             DictGet(config, "max_entries", DefaultMaxEntries),
                             clock) } :
      /\ Len(r.history) <= MaxLog
      /\ history' = r.history
      /\ history_file' = (IF r.saved # << >> THEN r.saved ELSE history_file)
      /\ ret' = r.ret
      /\ wrote' = (r.saved # << >>)
      /\ removed' = (IF r.ret THEN Len(history) + 1 - Len(r.history) ELSE 0)
      /\ op' = [name |-> "add_entry", content |-> content]
      /\ out' = << >>
      /\ UNCHANGED << config, max_size_bytes, config_file, clock >>

\* list_entries: the entries it prints, newest first
ListedEntries(h, limit, days, now) ==
  LET filtered == IF Truthy(days) THEN NotOlderThan(h, now - Days(days[1])) ELSE h
      reversed == Reverse(filtered)
  IN  IF Truthy(limit) THEN PySliceTo(reversed, limit[1]) ELSE reversed

ListEntries(limit, days) ==
  /\ out' = ListedEntries(history, limit, days, clock)
  /\ op' = [name |-> "list", limit |-> limit, days |-> days]
  /\ ret' = FALSE
  /\ removed' = 0
  /\ wrote' = FALSE
  /\ UNCHANGED << history, config, max_size_bytes, history_file, config_file, clock >>

\* clear emptying the log whatever the answer
ClearedHistoryUnasked(h, days, response, now) ==
  IF Truthy(days) THEN NotOlderThan(h, now - Days(days[1])) ELSE << >>

\* clear: the log it leaves
ClearedHistory(h, days, response, now) ==
  IF Truthy(days) THEN NotOlderThan(h, now - Days(days[1]))
  ELSE IF Lower(response) = "yes" THEN << >> ELSE h

Clear(days, response) ==
  \E kept \in { ClearedHistory(history, days, response, clock) } :
      /\ history' = kept
      /\ removed' = Len(history) - Len(kept)
      /\ history_file' = SaveData(kept)
      /\ wrote' = TRUE
      /\ op' = [name |-> "clear", days |-> days,
                response |-> IF Truthy(days) THEN "" ELSE response]
      /\ ret' = FALSE
      /\ out' = << >>
      /\ UNCHANGED << config, max_size_bytes, config_file, clock >>

\* str.lower() of one code point: ASCII and Latin-1 capitals
LowerCp(cp) ==
  IF (cp >= 65 /\ cp <= 90) \/ (cp >= 192 /\ cp <= 222 /\ cp # 215)
  THEN cp + 32 ELSE cp

\* str.lower()
TextLower(s) == [i \in 1..Len(s) |-> LowerCp(s[i])]

\* needle in text
Contains(text, needle) ==
  \E i \in 0..(Len(text) - Len(needle)) : SubSeq(text, i + 1, i + Len(needle)) = needle

\* search's loop over reversed(self.history), with its break
RECURSIVE SearchScan(_, _, _, _)
SearchScan(rev, query_lower, limit, matches) ==
  IF rev = << >> THEN matches
  ELSE IF Contains(TextLower(Head(rev).content), query_lower)
    THEN LET found == Append(matches, Head(rev))
         IN  IF Truthy(limit) /\ Len(found) >= limit[1] THEN found
             ELSE SearchScan(Tail(rev), query_lower, limit, found)
    ELSE SearchScan(Tail(rev), query_lower, limit, matches)

\* search: the entries it prints
SearchMatches(h, query, limit) == SearchScan(Reverse(h), TextLower(query), limit, << >>)

Search(query, limit) ==
  /\ out' = SearchMatches(history, query, limit)
  /\ op' = [name |-> "search", query |-> query, limit |-> limit]
  /\ ret' = FALSE
  /\ removed' = 0
  /\ wrote' = FALSE
  /\ UNCHANGED << history, config, max_size_bytes, history_file, config_file, clock >>

\* get_entry taking its index from 0
GotEntryZeroBased(h, index) ==
  IF h = << >> THEN [reported |-> "No clipboard history.", out |-> << >>]
  ELSE IF index < 0 \/ index >= Len(h)
    THEN [reported |-> "Invalid index.", out |-> << >>]
    ELSE [reported |-> "", out |-> << Reverse(h)[index + 1] >>]

\* get_entry: the message or the entry it prints
GotEntry(h, index) ==
  IF h = << >> THEN [reported |-> "No clipboard history.", out |-> << >>]
  ELSE IF index < 1 \/ index > Len(h)
    THEN [reported |-> "Invalid index.", out |-> << >>]
    ELSE [reported |-> "", out |-> << Reverse(h)[index] >>]

GetEntry(index, response) ==
  \E g \in { GotEntry(history, index) } :
      /\ reported' = g.reported
      /\ out' = g.out
      /\ clipboard' = (IF g.out # << >> /\ Lower(response) = "y"
                       THEN g.out[1].content ELSE clipboard)
      /\ op' = [name |-> "get", index |-> index]
      /\ ret' = FALSE
      /\ removed' = 0
      /\ wrote' = FALSE
      /\ UNCHANGED << history, config, max_size_bytes, history_file, config_file,
                      clock, stats >>

\* sum(e['size'] for e in h)
RECURSIVE TotalSize(_)
TotalSize(h) == IF h = << >> THEN 0 ELSE Head(h).size + TotalSize(Tail(h))

\* the average by floor division
AvgSizeFloor(total_size, total_entries) ==
  IF total_entries > 0
  THEN [whole |-> total_size \div total_entries, rest |-> 0, per |-> total_entries]
  ELSE [whole |-> 0, rest |-> 0, per |-> 1]

\* total_size / total_entries if total_entries > 0 else 0: the true quotient
\* whole + rest / per
AvgSize(total_size, total_entries) ==
  IF total_entries > 0
  THEN [whole |-> total_size \div total_entries, rest |-> total_size % total_entries,
        per |-> total_entries]
  ELSE [whole |-> 0, rest |-> 0, per |-> 1]

\* the dates by_day has a count for
ByDay(h) == { h[i].timestamp.date : i \in 1..Len(h) }

\* stats: the message of its early return or the figures it computes
StatsFigures(h) ==
  IF h = << >> THEN [reported |-> "No clipboard history.", stats |-> << >>]
  ELSE [reported |-> "",
        stats |-> << [total_entries |-> Len(h),
                      total_size |-> TotalSize(h),
                      avg_size |-> AvgSize(TotalSize(h), Len(h)),
                      by_day |-> Cardinality(ByDay(h))] >>]

Stats ==
  \E f \in { StatsFigures(history) } :
      /\ reported' = f.reported
      /\ stats' = f.stats
      /\ op' = [name |-> "stats"]
      /\ ret' = FALSE
      /\ out' = << >>
      /\ removed' = 0
      /\ wrote' = FALSE
      /\ UNCHANGED << history, config, max_size_bytes, history_file, config_file,
                      clock, clipboard >>

\* A new process constructs ClipboardManager on the same directory.
LoadData ==
  /\ history' = (IF history_file # << >> THEN JsonLoad(history_file[1]) ELSE << >>)
  /\ IF config_file # << >>
     THEN /\ config' = config_file[1]
          /\ UNCHANGED config_file
     ELSE /\ config' = DefaultConfig
          /\ config_file' = << DefaultConfig >>
  /\ op' = [name |-> "open"]
  /\ ret' = FALSE
  /\ out' = << >>
  /\ removed' = 0
  /\ wrote' = FALSE
  /\ UNCHANGED << max_size_bytes, history_file, clock >>

\* load_data on whatever the two files hold.  json.load raises on text it
\* cannot parse and the constructor never returns; any document it can parse
\* becomes self.history or self.config as it is.
OpenOutcome(hfile, hshape, cfile, cshape) ==
  IF (hfile # << >> /\ hshape = "broken") \/ (cfile # << >> /\ cshape = "broken")
  THEN [store |-> "none", history |-> << >>, history_shape |-> "list",
        config |-> DefaultConfig, config_shape |-> "dict",
        config_file |-> cfile, config_file_shape |-> cshape]
  ELSE [store |-> "open",
        history |-> IF hfile # << >> /\ hshape = "records"
                    THEN JsonLoad(hfile[1]) ELSE << >>,
        history_shape |-> IF hfile # << >> /\ hshape = "strings"
                          THEN "strings" ELSE "list",
        config |-> IF cfile # << >> /\ cshape = "dict" THEN cfile[1] ELSE DefaultConfig,
        config_shape |-> IF cfile # << >> /\ cshape = "list" THEN "list" ELSE "dict",
        config_file |-> IF cfile = << >> THEN << DefaultConfig >> ELSE cfile,
        config_file_shape |-> IF cfile = << >> THEN "dict" ELSE cshape]

\* A new process constructs ClipboardManager on the directory as it is.
OpenStore ==
  \E o \in { OpenOutcome(history_file, shape.history_file,
                          config_file, shape.config_file) } :
      /\ store' = o.store
      /\ history' = o.history
      /\ config' = o.config
      /\ config_file' = o.config_file
      /\ shape' = [history_file |-> shape.history_file,
                   config_file |-> o.config_file_shape,
                   history |-> o.history_shape,
                   config |-> o.config_shape]
      /\ op' = [name |-> "open"]
      /\ ret' = FALSE
      /\ out' = << >>
      /\ removed' = 0
      /\ wrote' = FALSE
      /\ UNCHANGED << max_size_bytes, history_file, clock >>

\* add_entry on a store whose log and config have the expected shape
AddEntryOpen(content) ==
  /\ store = "open" /\ shape.history = "list" /\ shape.config = "dict"
  /\ AddEntry(content)
  /\ shape' = [shape EXCEPT !.history_file = IF wrote' THEN "records" ELSE @]
  /\ UNCHANGED store

\* add_entry on a store that loaded ["a"] as its log or [] as its config: the
\* size test returns False; self.history[-1]['content'] raises TypeError on a
\* string; self.config.get raises AttributeError on a list, after the append
\* and before save_data
AddEntryRaises(content) ==
  /\ store = "open" /\ (shape.history = "strings" \/ shape.config = "list")
  /\ Len(history) < MaxLog
  /\ history' = (IF TooLarge(content, max_size_bytes) \/ shape.history = "strings"
                    \/ SameAsLast(history, content)
                 THEN history ELSE Append(history, NewEntry(content, clock)))
  /\ op' = [name |-> "add_entry", content |-> content]
  /\ ret' = FALSE
  /\ out' = << >>
  /\ removed' = 0
  /\ wrote' = FALSE
  /\ UNCHANGED << config, max_size_bytes, history_file, config_file, clock,
                  store, shape >>

\* clear on an open store.  On the loaded ["a"] the filter by age raises
\* TypeError at e['timestamp']; the unconditional clear needs no entry and
\* writes [] on "yes" and ["a"] back otherwise.
ClearOpen(days, response) ==
  /\ store = "open"
  /\ IF shape.history = "list"
     THEN /\ Clear(days, response)
          /\ shape' = [shape EXCEPT !.history_file = "records"]
     ELSE /\ op' = [name |-> "clear", days |-> days,
                    response |-> IF Truthy(days) THEN "" ELSE response]
          /\ ret' = FALSE
          /\ out' = << >>
          /\ UNCHANGED << history, config, max_size_bytes, config_file, clock >>
          /\ IF Truthy(days)
             THEN /\ removed' = 0 /\ wrote' = FALSE
                  /\ UNCHANGED << history_file, shape >>
             ELSE /\ wrote' = TRUE
                  /\ removed' = (IF Lower(response) = "yes" THEN 1 ELSE 0)
                  /\ history_file' = SaveData(<< >>)
                  /\ shape' = (IF Lower(response) = "yes"
                               THEN [shape EXCEPT !.history = "list",
                                                  !.history_file = "records"]
                               ELSE [shape EXCEPT !.history_file = "strings"])
  /\ UNCHANGED store

\* Something other than this program leaves clipboard.json with another text:
\* a write cut short, a file of another tool or version.
DamageHistoryFile(s) ==
  /\ history_file # << >>
  /\ s # "records"
  /\ history_file' = SaveData(<< >>)
  /\ shape' = [shape EXCEPT !.history_file = s]
  /\ op' = [name |-> "damage"]
  /\ ret' = FALSE /\ out' = << >> /\ removed' = 0 /\ wrote' = FALSE
  /\ UNCHANGED << history, config, max_size_bytes, config_file, clock, store >>

DamageConfigFile(s) ==
  /\ config_file # << >>
  /\ s # "dict"
  /\ config_file' = << DefaultConfig >>
  /\ shape' = [shape EXCEPT !.config_file = s]
  /\ op' = [name |-> "damage"]
  /\ ret' = FALSE /\ out' = << >> /\ removed' = 0 /\ wrote' = FALSE
  /\ UNCHANGED << history, config, max_size_bytes, history_file, clock, store >>

\* The user deletes the data files.
RemoveFiles ==
  /\ history_file # << >> \/ config_file # << >>
  /\ history_file' = << >>
  /\ config_file' = << >>
  /\ shape' = [shape EXCEPT !.history_file = "records", !.config_file = "dict"]
  /\ op' = [name |-> "remove"]
  /\ ret' = FALSE /\ out' = << >> /\ removed' = 0 /\ wrote' = FALSE
  /\ UNCHANGED << history, config, max_size_bytes, clock, store >>

\* monitor() starts: last_content = None
StartMonitor ==
  /\ store = "open" /\ ~running
  /\ running' = TRUE
  /\ last_content' = << >>
  /\ offered' = FALSE
  /\ op' = [name |-> "start"]
  /\ ret' = FALSE /\ out' = << >> /\ removed' = 0 /\ wrote' = FALSE
  /\ UNCHANGED << history, config, max_size_bytes, history_file, config_file,
                  clock, store, shape >>

\* the test offering every non-empty read
ShouldOfferNonEmpty(current_content, last) == current_content # << >>

\* if current_content and current_content != last_content
ShouldOffer(current_content, last) ==
  current_content # << >> /\ << current_content >> # last

\* One pass of monitor's loop in which nothing raises.
MonitorTick(current_content) ==
  /\ running
  /\ offered' = ShouldOffer(current_content, last_content)
  /\ IF offered'
     THEN /\ AddEntryOpen(current_content)
          /\ last_content' = << current_content >>
     ELSE /\ op' = [name |-> "tick", read |-> current_content, failed |-> FALSE]
          /\ ret' = FALSE /\ out' = << >> /\ removed' = 0 /\ wrote' = FALSE
          /\ UNCHANGED << history, config, max_size_bytes, history_file, config_file,
                          clock, store, shape, last_content >>
  /\ UNCHANGED running

\* the loop catching nothing
CaughtByLoopNothing(exc) == FALSE

\* except Exception: KeyboardInterrupt is not an Exception
CaughtByLoop(exc) == exc # "KeyboardInterrupt"

\* One pass of the loop in which pyperclip.paste() raises, or the sleep is
\* interrupted by Ctrl+C.
MonitorRaises(exc) ==
  /\ running
  /\ running' = CaughtByLoop(exc)
  /\ offered' = FALSE
  /\ op' = (IF exc = "KeyboardInterrupt" THEN [name |-> "cancel"]
            ELSE [name |-> "tick", read |-> << >>, failed |-> TRUE])
  /\ ret' = FALSE /\ out' = << >> /\ removed' = 0 /\ wrote' = FALSE
  /\ UNCHANGED << history, config, max_size_bytes, history_file, config_file,
                  clock, store, shape, last_content >>

\* One pass of the loop in which add_entry accepts the content and its
\* save_data raises (disk full, file not writable): the entry is appended
\* and the log limited before the write, the exception skips
\* last_content = current_content and the loop goes on.
MonitorTickWriteFails(current_content, left) ==
  /\ running
  /\ ShouldOffer(current_content, last_content)
  /\ shape.history = "list" /\ shape.config = "dict"
  /\ \E r \in { AddEntryOutcome(history, current_content, max_size_bytes,
                                DictGet(config, "max_entries", DefaultMaxEntries),
                                clock) } :
       /\ r.ret
       /\ Len(r.history) <= MaxLog
       /\ history' = r.history
       /\ removed' = Len(history) + 1 - Len(r.history)
  /\ IF left = "broken"
     THEN /\ history_file' = SaveData(<< >>)
          /\ shape' = [shape EXCEPT !.history_file = "broken"]
     ELSE UNCHANGED << history_file, shape >>
  /\ offered' = TRUE
  /\ op' = [name |-> "add_entry_raised", content |-> current_content]
  /\ ret' = FALSE /\ out' = << >> /\ wrote' = FALSE
  /\ UNCHANGED << config, max_size_bytes, config_file, clock, store,
                  last_content, running >>

\* add_entry in the first process, a running monitor
AddEntryFirst(content) ==
  /\ Len(accepted) < MaxAppends
  /\ AddEntry(content)
  /\ accepted' = (IF ret' THEN Append(accepted, history'[Len(history')]) ELSE accepted)
  /\ last_writer' = (IF wrote' THEN 1 ELSE last_writer)
  /\ UNCHANGED history2

\* A second process constructs ClipboardManager on the same directory.
LoadDataSecond ==
  /\ history2' = (IF history_file # << >> THEN JsonLoad(history_file[1]) ELSE << >>)
  /\ op' = [name |-> "open", process |-> 2]
  /\ ret' = FALSE /\ out' = << >> /\ removed' = 0 /\ wrote' = FALSE
  /\ UNCHANGED << history, config, max_size_bytes, history_file, config_file,
                  clock, accepted, last_writer >>

\* clear in the second process
ClearSecond(days, response) ==
  \E kept \in { ClearedHistory(history2, days, response, clock) } :
      /\ history2' = kept
      /\ removed' = Len(history2) - Len(kept)
      /\ history_file' = SaveData(kept)
      /\ wrote' = TRUE
      /\ last_writer' = 2
      /\ op' = [name |-> "clear", days |-> days,
                response |-> IF Truthy(days) THEN "" ELSE response, process |-> 2]
      /\ ret' = FALSE
      /\ out' = << >>
      /\ UNCHANGED << history, config, max_size_bytes, config_file, clock, accepted >>

\* The wall clock moves on.
Tick ==
  /\ clock < MaxTime
  /\ clock' = clock + 1
  /\ op' = [name |-> "clock"]
  /\ ret' = FALSE /\ out' = << >> /\ removed' = 0 /\ wrote' = FALSE
  /\ UNCHANGED << history, config, max_size_bytes, history_file, config_file >>

\* The local wall clock is set back (end of daylight saving time, a clock
\* adjustment): datetime.now() is naive local time, not a monotonic clock.
ClockBack ==
  /\ clock > 0
  /\ clock' = clock - 1
  /\ op' = [name |-> "clock"]
  /\ ret' = FALSE /\ out' = << >> /\ removed' = 0 /\ wrote' = FALSE
  /\ UNCHANGED << history, config, max_size_bytes, history_file, config_file >>

\* The store: every call that changes the log, and the clock.
Next ==
  \/ \E c \in Contents : AddEntry(c) /\ UNCHANGED aux
  \/ \E days \in OptInts, response \in Responses :
       Clear(days, response) /\ UNCHANGED aux
  \/ LoadData /\ UNCHANGED aux
  \/ Tick /\ UNCHANGED aux
  \/ ClockBack /\ UNCHANGED aux

Spec == Init /\ [][Next]_vars

\* The store with its read-only queries.
NextQuery ==
  \/ \E c \in Contents : AddEntry(c) /\ UNCHANGED aux
  \/ \E days \in OptInts, response \in Responses :
       Clear(days, response) /\ UNCHANGED aux
  \/ \E limit \in OptInts, days \in OptInts :
       ListEntries(limit, days) /\ UNCHANGED aux
  \/ LoadData /\ UNCHANGED aux
  \/ Tick /\ UNCHANGED aux
  \/ ClockBack /\ UNCHANGED aux

SpecQuery == Init /\ [][NextQuery]_vars

\* The store with search.
NextSearch ==
  \/ \E c \in Contents : AddEntry(c) /\ UNCHANGED aux
  \/ \E days \in OptInts, response \in Responses :
       Clear(days, response) /\ UNCHANGED aux
  \/ \E query \in Queries, limit \in OptInts :
       Search(query, limit) /\ UNCHANGED aux
  \/ LoadData /\ UNCHANGED aux
  \/ Tick /\ UNCHANGED aux
  \/ ClockBack /\ UNCHANGED aux

SpecSearch == Init /\ [][NextSearch]_vars

\* The store with get_entry.
NextGet ==
  \/ \E c \in Contents : AddEntry(c) /\ UNCHANGED aux
  \/ \E days \in OptInts, response \in Responses :
       Clear(days, response) /\ UNCHANGED aux
  \/ \E index \in Indexes, response \in CopyResponses :
       GetEntry(index, response)
       /\ UNCHANGED << accepted, monitorVars, openVars, twoVars >>
  \/ Tick /\ UNCHANGED aux

SpecGet == Init /\ [][NextGet]_vars

\* The store with stats.
NextStats ==
  \/ \E c \in Contents : AddEntry(c) /\ UNCHANGED aux
  \/ \E days \in OptInts, response \in Responses :
       Clear(days, response) /\ UNCHANGED aux
  \/ Stats /\ UNCHANGED << accepted, monitorVars, openVars, twoVars >>
  \/ Tick /\ UNCHANGED aux

SpecStats == Init /\ [][NextStats]_vars

\* Processes that open the directory as they find it and run commands.
NextOpen ==
  \/ OpenStore
     /\ UNCHANGED << accepted, queryVars, monitorVars, twoVars >>
  \/ \E c \in Contents : AddEntryOpen(c)
     /\ UNCHANGED << accepted, queryVars, monitorVars, twoVars >>
  \/ \E c \in Contents : AddEntryRaises(c)
     /\ UNCHANGED << accepted, queryVars, monitorVars, twoVars >>
  \/ \E days \in OptInts, response \in Responses : ClearOpen(days, response)
     /\ UNCHANGED << accepted, queryVars, monitorVars, twoVars >>
  \/ \E s \in HistoryFileShapes : DamageHistoryFile(s)
     /\ UNCHANGED << accepted, queryVars, monitorVars, twoVars >>
  \/ \E s \in ConfigFileShapes : DamageConfigFile(s)
     /\ UNCHANGED << accepted, queryVars, monitorVars, twoVars >>
  \/ RemoveFiles
     /\ UNCHANGED << accepted, queryVars, monitorVars, twoVars >>

SpecOpen == Init /\ [][NextOpen]_vars

\* The monitor loop on a storage whose writes succeed.
NextMonitor ==
  \/ StartMonitor /\ UNCHANGED << accepted, queryVars, twoVars >>
  \/ \E current_content \in Reads :
       MonitorTick(current_content) /\ UNCHANGED << accepted, queryVars, twoVars >>
  \/ \E exc \in Raised :
       MonitorRaises(exc) /\ UNCHANGED << accepted, queryVars, twoVars >>
  \/ Tick /\ UNCHANGED aux

SpecMonitor == Init /\ [][NextMonitor]_vars

\* The monitor loop on a storage whose writes can fail.
NextMonitorFail ==
  \/ StartMonitor /\ UNCHANGED << accepted, queryVars, twoVars >>
  \/ \E current_content \in Reads :
       MonitorTick(current_content) /\ UNCHANGED << accepted, queryVars, twoVars >>
  \/ \E current_content \in Reads, left \in FailedWrites :
       MonitorTickWriteFails(current_content, left)
       /\ UNCHANGED << accepted, queryVars, twoVars >>
  \/ \E exc \in Raised :
       MonitorRaises(exc) /\ UNCHANGED << accepted, queryVars, twoVars >>
  \/ Tick /\ UNCHANGED aux

SpecMonitorFail == Init /\ [][NextMonitorFail]_vars

\* A running monitor and one-shot clear commands on the same directory.
NextTwo ==
  \/ \E c \in Contents :
       AddEntryFirst(c) /\ UNCHANGED << queryVars, monitorVars, openVars >>
  \/ LoadDataSecond /\ UNCHANGED << queryVars, monitorVars, openVars >>
  \/ \E days \in OptInts, response \in Responses :
       ClearSecond(days, response) /\ UNCHANGED << queryVars, monitorVars, openVars >>
  \/ Tick /\ UNCHANGED aux

SpecTwo == Init /\ [][NextTwo]_vars

\* Appends only, from the empty log, with the accepted entries recorded.
AddEntryRecorded(content) ==
  /\ Len(accepted) < MaxAppends
  /\ AddEntry(content)
  /\ accepted' = (IF ret' THEN Append(accepted, history'[Len(history')]) ELSE accepted)
  /\ UNCHANGED << queryVars, monitorVars, openVars, twoVars >>

NextAppend ==
  \/ \E c \in Contents : AddEntryRecorded(c)
  \/ LoadData /\ UNCHANGED aux
  \/ Tick /\ UNCHANGED aux
  \/ ClockBack /\ UNCHANGED aux

SpecAppend == Init /\ [][NextAppend]_vars

\* ------------------------------------------------------------------ claims
IsSuffixOf(s, t) ==
  Len(s) <= Len(t) /\ s = SubSeq(t, Len(t) - Len(s) + 1, Len(t))

Timestamp(e) == FromIsoFormat(e.timestamp)

\* the size fields of the first n entries of h, added up
RECURSIVE SizeOfFirst(_, _)
SizeOfFirst(h, n) == IF n = 0 THEN 0 ELSE SizeOfFirst(h, n - 1) + h[n].size

\* the log clipboard.json holds (empty when the file is absent)
PersistedLog == IF history_file = << >> THEN << >> ELSE JsonLoad(history_file[1])

\* C1: add_entry(c) returns false exactly when c's UTF-8 length exceeds
\* max_size_bytes or the log is non-empty and its last content equals c;
\* otherwise it returns true and the log is the old log with the new entry
\* appended, less the entries eviction dropped from the front.  A repeat of the
\* content just accepted is rejected.
C1_AddEntryAcceptsExactly ==
  [][op'.name = "add_entry" =>
       LET c == op'.content
           n == Len(history)
           oversize == Utf8Len(c) > max_size_bytes
           duplicate == n > 0 /\ history[n].content = c
           grown == Append(history, [content |-> c,
                                     timestamp |-> IsoFormat(clock),
                                     size |-> Utf8Len(c)])
       IN  /\ ret' = ~(oversize \/ duplicate)
           /\ ret' => /\ IsSuffixOf(history', grown)
                      /\ Len(history') = Len(grown) - removed'
           /\ (op.name = "add_entry" /\ ret /\ op.content = c) => ~ret'
  ]_vars

\* a, b, a were all accepted and a fourth add_entry(a) was rejected as a repeat
C1_Witness ==
  /\ op.name = "add_entry" /\ ~ret
  /\ Utf8Len(op.content) <= max_size_bytes
  /\ Len(history) = 3
  /\ history[1].content = op.content /\ history[3].content = op.content
  /\ history[2].content # op.content

\* C2: an add_entry that returns false changes neither the log, the config,
\* clipboard.json nor config.json, and writes nothing.
C2_RejectedAddIsNoOp ==
  [][(op'.name = "add_entry" /\ ~ret') =>
       /\ history' = history
       /\ config' = config
       /\ history_file' = history_file
       /\ config_file' = config_file
       /\ ~wrote'
  ]_vars

\* an oversize content was rejected on a log that holds entries
C2_Witness ==
  /\ op.name = "add_entry" /\ ~ret
  /\ Utf8Len(op.content) > max_size_bytes
  /\ Len(history) >= 1
  /\ history_file # << >>

\* C3: with max_entries = N, after n accepted appends to the empty log the log
\* is the last min(n, N) accepted entries in order: of length N once n >= N,
\* its oldest entry being the (n - N + 1)-th accepted one.
C3_EvictionKeepsNewest ==
  LET N == config.max_entries
      n == Len(accepted)
  IN  /\ n < N => history = accepted
      /\ n >= N => /\ Len(history) = N
                   /\ history[1] = accepted[n - N + 1]
                   /\ history = SubSeq(accepted, n - N + 1, n)

\* N = 2 and N + 2 entries accepted: the first two were dropped
C3_Witness ==
  /\ config.max_entries = 2
  /\ Len(accepted) = 4
  /\ op.name = "add_entry" /\ ret /\ removed = 1
  /\ history = << accepted[3], accepted[4] >>

\* C4: the log never holds more than max_entries entries.
C4_LengthBounded == Len(history) <= config.max_entries

\* an append to a full log evicted an entry
C4_Witness ==
  /\ op.name = "add_entry" /\ ret /\ removed = 1
  /\ config.max_entries = 2
  /\ Len(history) = 2

\* C5: no two adjacent entries of the log have identical content.
C5_NoAdjacentDuplicates ==
  \A i \in 1..(Len(history) - 1) : history[i].content # history[i + 1].content

\* C6: every entry's size is the UTF-8 byte length of its content and does not
\* exceed max_size_bytes.
C6_SizeIsByteLength ==
  \A i \in 1..Len(history) :
    /\ history[i].size = Utf8Len(history[i].content)
    /\ history[i].size <= max_size_bytes

\* a multi-byte content exactly at the limit is stored
C6_Witness ==
  \E i \in 1..Len(history) :
    /\ history[i].size = max_size_bytes
    /\ history[i].size > Len(history[i].content)

\* C7: after every call the log in clipboard.json equals the log in memory.
C7_PersistedEqualsMemory == PersistedLog = history

\* a declined full clear and an evicting append both leave the file current
C7_Witness ==
  /\ wrote /\ Len(history) = 2 /\ history_file # << >>
  /\ \/ op.name = "clear" /\ op.response = "no"
     \/ op.name = "add_entry" /\ removed = 1

\* C8: a fresh open on the saved location yields the log that was saved, and
\* saving the loaded log reproduces the records in clipboard.json.
C8_RoundTrip ==
  [][op'.name = "open" =>
       /\ history' = history
       /\ history_file' # << >> => << JsonDump(history') >> = history_file'
  ]_vars

\* a log with escaped and multi-byte content was loaded back
C8_Witness ==
  /\ op.name = "open"
  /\ Len(history) = 2
  /\ \E i \in 1..2 : history[i].size > Len(history[i].content)
  /\ history[1].timestamp.time # history[2].timestamp.time

\* C9: list(limit, within_days) returns the entries with timestamp >=
\* now - within_days (all when omitted), newest first, cut to the first limit
\* of them when a limit is given.
C9_ListFiltersReversesTruncates ==
  op.name = "list" =>
    LET recent == IF op.days = << >> THEN history
                  ELSE SelectSeq(history,
                         LAMBDA e : Timestamp(e) >= clock - op.days[1] * TicksPerDay)
        newestFirst == [i \in 1..Len(recent) |-> recent[Len(recent) + 1 - i]]
        expected == IF op.limit = << >> THEN newestFirst
                    ELSE SubSeq(newestFirst, 1, Min(op.limit[1], Len(newestFirst)))
    IN  /\ out = expected
        /\ op.limit # << >> => Len(out) <= op.limit[1]

\* C10: list()'s first result has the greatest timestamp, and the log's
\* timestamps are non-decreasing in storage order.
C10_NewestFirst ==
  /\ \A i, j \in 1..Len(history) :
       i <= j => Timestamp(history[i]) <= Timestamp(history[j])
  /\ (op.name = "list" /\ out # << >>) =>
       \A k \in 1..Len(out) : Timestamp(out[1]) >= Timestamp(out[k])

\* C11: search(query, limit) returns, newest first, the entries whose content
\* contains query case-insensitively: all of them without a limit, the
\* min(limit, number of matches) most recent ones with a limit >= 0.
C11_SearchNewestMatches ==
  op.name = "search" =>
    LET q == TextLower(op.query)
        matching == SelectSeq(history, LAMBDA e : Contains(TextLower(e.content), q))
        newestFirst == [i \in 1..Len(matching) |-> matching[Len(matching) + 1 - i]]
    IN  out = IF op.limit = << >> THEN newestFirst
              ELSE SubSeq(newestFirst, 1, Min(op.limit[1], Len(newestFirst)))

\* C12: on a log of length N, get(i) with 1 <= i <= N returns the entry at
\* storage position N - i + 1; any other i, or an empty log, is reported,
\* returns no entry and leaves the log, clipboard.json and the clipboard as
\* they were.
C12_GetIndexMapping ==
  [][op'.name = "get" =>
       LET N == Len(history)
           i == op'.index
       IN  IF 1 <= i /\ i <= N
           THEN out' = << history[N - i + 1] >> /\ reported' = ""
           ELSE /\ reported' # ""
                /\ out' = << >>
                /\ history' = history
                /\ history_file' = history_file
                /\ clipboard' = clipboard
  ]_vars

\* get(N) on a log of three entries printed the oldest one and copied it
C12_Witness ==
  /\ op.name = "get" /\ op.index = 3
  /\ Len(history) = 3
  /\ out = << history[1] >>
  /\ clipboard = history[1].content
  /\ history[1].timestamp # history[3].timestamp

\* C13: prune with a given older_than_days d >= 0 removes exactly the entries
\* with timestamp < now - d, keeps the others in order, saves the result and
\* counts the entries removed, whatever is answered to a confirmation prompt.
C13_PruneByAge ==
  [][(op'.name = "clear" /\ op'.days # << >>) =>
       LET cutoff == clock - op'.days[1] * TicksPerDay
           kept == SelectSeq(history, LAMBDA e : Timestamp(e) >= cutoff)
       IN  /\ history' = kept
           /\ removed' = Len(history) - Len(kept)
           /\ \A i \in 1..Len(history') : Timestamp(history'[i]) >= cutoff
           /\ PersistedLog' = history'
  ]_vars

C15_OpenRejectsMalformed ==
  [][op'.name = "open" =>
       /\ ( \/ (history_file # << >> /\ shape.history_file # "records")
            \/ (config_file # << >> /\ shape.config_file # "dict") )
          => /\ store' = "none"
             /\ UNCHANGED << history_file, config_file >>
             /\ shape'.history_file = shape.history_file
             /\ shape'.config_file = shape.config_file
       /\ (history_file = << >> /\ config_file = << >>)
          => /\ store' = "open"
             /\ history' = << >> /\ shape'.history = "list"
             /\ config' = [max_entries |-> 1000, retention_days |-> 30]
             /\ shape'.config = "dict"
  ]_vars
\* the text a pass of the monitor loop read from the clipboard
ReadOf(o) == IF o.name = "tick" THEN o.read ELSE o.content

\* C16: a pass of the monitor loop calls add_entry exactly when the text it
\* read is non-empty and differs from last_content; after such a pass
\* last_content is that text, whether add_entry accepted or rejected it; a
\* text equal to last_content is not offered again, and an empty read changes
\* neither last_content nor the log.
C16_OfferedOncePerChange ==
  [][(op'.name \in { "tick", "add_entry" } /\ ~(op'.name = "tick" /\ op'.failed)) =>
       LET current_content == ReadOf(op')
           differs == last_content = << >> \/ last_content[1] # current_content
       IN  /\ (op'.name = "add_entry") <=> (Len(current_content) > 0 /\ differs)
           /\ offered' <=> (op'.name = "add_entry")
           /\ offered' => last_content' = << current_content >>
           /\ ~offered' => UNCHANGED << last_content, history, history_file >>
           /\ (last_content = << current_content >>) => ~offered'
           /\ (current_content = << >>)
                => UNCHANGED << last_content, history, history_file >>
  ]_vars

\* the loop has read the 24-byte text, add_entry has rejected it for its
\* size and last_content holds it
C16_Witness ==
  /\ op.name = "add_entry" /\ offered /\ ~ret
  /\ Utf8Len(op.content) > max_size_bytes
  /\ last_content = << op.content >>
  /\ history # << >>

\* C17: a pass of the monitor loop whose clipboard read fails changes
\* neither the log nor clipboard.json nor last_content and leaves the loop
\* running; the loop stops only when it is cancelled, and cancelling writes
\* nothing.
C17_ReadFailureIsNoOp ==
  [][/\ (op'.name = "tick" /\ op'.failed)
          => /\ running'
             /\ ~wrote'
             /\ UNCHANGED << history, history_file, config_file, last_content >>
     /\ (running /\ ~running')
          => /\ op'.name = "cancel"
             /\ ~wrote'
             /\ UNCHANGED << history, history_file, config_file >>
  ]_vars

\* a read has failed while the loop held a log and a last_content, and the
\* loop is still running
C17_Witness ==
  /\ op.name = "tick" /\ op.failed
  /\ running
  /\ Len(history) = 2
  /\ last_content # << >>
\* C20: when save_data raises inside add_entry during a pass of the monitor
\* loop, the log in memory is left as it was before the call and still
\* equals the log in clipboard.json, and the same content offered on the next
\* pass is accepted and written.
C20_FailedWriteRollsBack ==
  [][/\ op'.name = "add_entry_raised"
          => /\ history' = history
             /\ PersistedLog' = history'
     /\ (op.name = "add_entry_raised" /\ op'.name = "add_entry"
           /\ op'.content = op.content)
          => /\ ret'
             /\ PersistedLog' = history'
             /\ history'[Len(history')].content = op'.content
  ]_vars

\* C7, on a storage whose writes can fail: whenever add_entry has returned,
\* true or false, and clipboard.json holds the records of a completed write
\* (or is absent), the log in clipboard.json equals the log in memory.
C7_DurableAfterReturn ==
  [][(op'.name = "add_entry" /\ shape'.history_file = "records")
       => PersistedLog' = history'
  ]_vars
\* C18: clear without days empties the log only on an affirmative answer; on
\* any other answer the log in memory and the records in clipboard.json are
\* what they were before the call (an absent file becoming the empty list).
C18_ClearNeedsConfirmation ==
  [][(op'.name = "clear" /\ op'.days = << >>) =>
       IF op'.response \in { "yes", "YES", "Yes" }
       THEN history' = << >> /\ history_file' = << << >> >>
       ELSE /\ history' = history
            /\ history_file' = (IF history_file = << >> THEN << << >> >>
                                ELSE history_file)
            /\ removed' = 0
  ]_vars

\* a full clear of a log of two entries was declined
C18_Witness ==
  /\ op.name = "clear" /\ op.days = << >> /\ op.response = "no"
  /\ Len(history) = 2
  /\ PersistedLog = history
\* the entries of a log
Entries(h) == { h[i] : i \in 1..Len(h) }

\* C19: with two processes on one directory the log in clipboard.json is the
\* in-memory log of the process that saved last.
C19_LastWriterWins ==
  /\ last_writer = 1 => PersistedLog = history
  /\ last_writer = 2 => PersistedLog = history2
  /\ last_writer = 0 => history_file = << >>

\* an entry the first process accepted, saved and still holds is absent from
\* clipboard.json after the second process saved
C19_Witness ==
  /\ last_writer = 2
  /\ \E e \in Entries(history) \cap Entries(accepted) : e \notin Entries(PersistedLog)
====
